---- MODULE Spec2Model ----
(***************************************************************************)
(* Model of the AgentX assistant backend: the chat sessions of app.py, the *)
(* AgentManager of agent_manager.py, the provider adapters of llm.py and   *)
(* the default tools of tools/base_tools.py.                               *)
(*                                                                         *)
(* The server is one asyncio event loop.  A handler runs without           *)
(* interruption until it reaches an await that suspends (a WebSocket       *)
(* write, accept or close); only then does another handler run.  The       *)
(* variable running holds the chat handler that owns the loop; the other   *)
(* handlers run only while it is NoReq.  agent.run and the iteration of    *)
(* its result are synchronous calls: they never release the loop.          *)
(***************************************************************************)
EXTENDS Integers, Sequences, FiniteSets, TLC

\* ------------------------------------------------------------- bounds
MaxItems == 2      \* items one agent run yields before its stream must end
MaxItemsTwo == 1   \* the same, where two requests run side by side
MaxCfgOps == 1     \* add_tool / remove_tool / update_configuration calls
MaxRegOps == 2     \* the same, where no chat request runs beside them
MaxMsgs == 2       \* messages given to a provider object
MaxLines == 2      \* pieces in which a backend emits its answer
MaxCalls == 2      \* backend requests made on one provider object
MaxToolCalls == 2  \* calls of the default tools

\* ------------------------------------------------- program constants
DefaultMaxSteps == 10

\* ---------------------------------------------------------- universes
SessionIds == {"s1", "s2"}
NoSid == "none"
Transports == {"t1", "t2", "t3"}
NoWs == "none"
ReqIds == {"r1", "r2"}
NoReq == "none"
ProviderNames == {"ollama", "openai", "anthropic", "deepseek"}
Missing == "missing"
ProviderInputs == {"openai", "deepseek", "anthropic", "bogus", Missing}
ModelInputs == {"m1", Missing}
MessageInputs == {"hi", Missing}
\* the API keys the environment holds: the Anthropic key is not set
ApiKeys == {"openai", "deepseek"}
\* identifiers are handed out in this order
SessionOrder == <<"s1", "s2">>
TransportOrder == <<"t1", "t2", "t3">>
ReqOrder == <<"r1", "r2">>
\* text is a sequence of tokens; "" is the empty sequence
Chunks == {<<>>, <<"a">>}
MaxStepsInputs == {0, 1}
ToolInputs == {"mock_tool", "web_search"}
NoResponse == "none"
\* the responses of the backend requests made on a provider object that is
\* called directly, by the number of the request: those with a success
\* status and those with an error status
OkResponses == <<"h1", "h2", "h3", "h4">>
ErrorResponses == <<"e1", "e2", "e3", "e4">>

\* ------------------------------------------------------------ helpers
Put(f, k, v) == [x \in DOMAIN f \cup {k} |-> IF x = k THEN v ELSE f[x]]

Del(f, k) == [x \in DOMAIN f \ {k} |-> f[x]]

\* a provider adapter object: who constructed it, its class, its model name
Prov(src, kind, model) == [src |-> src, kind |-> kind, model |-> model]

NoProv == Prov("none", "none", "none")

Tool(name, ver) == [name |-> name, ver |-> ver]

\* x is the first identifier of the order that is not in use
First(x, order, used) ==
    \E i \in 1..Len(order) :
        /\ order[i] = x
        /\ x \notin used
        /\ \A j \in 1..(i - 1) : order[j] \in used

DefaultTools ==
    << Tool("web_search", 0), Tool("web_scrape", 0), Tool("system_command", 0),
       Tool("file_system", 0), Tool("twitter_search", 0), Tool("system_info", 0) >>

DefaultImports ==
    {"os", "sys", "json", "time", "datetime", "math", "random", "requests",
     "numpy", "pandas"}

\* events pushed over the WebSocket; req tags the chat invocation that issued
\* the event (the uuid message_id of app.py:168)
Thinking(v, r) ==
    [type |-> "thinking", value |-> v, id |-> "na", role |-> "na",
     content |-> <<>>, is_streaming |-> "na", req |-> r]

Message(idp, role, content, streaming, r) ==
    [type |-> "message", value |-> "na", id |-> idp, role |-> role,
     content |-> content, is_streaming |-> streaming, req |-> r]

\* ------------------------------------------------------------- state
VARIABLES
    api_keys,            \* provider API keys present in the environment
    chat_sessions,       \* session id -> AgentManager          (app.py:43)
    agents,              \* the CodeAgent objects built so far, by address
    active_requests,     \* session id -> provider or None      (app.py:44)
    active_connections,  \* session id -> bound websocket       (app.py:47)
    ws,                  \* per websocket: its websocket_endpoint handler
    received,            \* per websocket: the events the client received
    req,                 \* per chat invocation: the chat handler's frame
    current_request,     \* provider object -> its _current_request
    closed_responses,    \* backend responses closed by cancel_request
    running,             \* the chat handler that owns the event loop
    cfg_ops,             \* number of configuration calls made
    replaced,            \* history: websockets whose binding was overwritten
    idle_cancels,        \* history: a cancel found nothing to cancel
    adapter,             \* a provider object of llm.py that is called directly
    tool_calls           \* the calls of forward made on the default tools

vars ==
    << api_keys, chat_sessions, agents, active_requests, active_connections,
       ws, received, req, current_request, closed_responses, running,
       cfg_ops, replaced, idle_cancels, adapter, tool_calls >>

NewReq ==
    [pc |-> "new", sid |-> NoSid, msg |-> Missing, llm |-> NoProv, resp |-> "none", text |-> <<>>,
     full |-> <<>>, exc |-> "none", at |-> "none", target |-> NoWs,
     ev |-> Thinking("na", NoReq), n |-> 0, agent |-> 0, result |-> "none",
     \* history fields
     snap |-> [tools |-> <<>>, model |-> NoProv, max_steps |-> 0],
     cfg0 |-> [tools |-> <<>>, max_steps |-> 0],
     chunks |-> <<>>, issued |-> <<>>, clean |-> TRUE, via |-> NoWs,
     cancelled |-> FALSE, after_cancel |-> 0, stale |-> FALSE,
     end_marker |-> NoProv, dropped |-> 0]

\* the backend of a provider: whether the call fails ("transport": the HTTP
\* library or the SDK raises; "status": the backend answers with an HTTP
\* error status), the pieces of the answer in the order in which it emits
\* them, and whether the answer holds a tool call
Backend(fail, lines, tool) == [fail |-> fail, lines |-> lines, tool |-> tool]

\* a Python value an adapter method hands back: its type and its text
Value(type, text) == [type |-> type, text |-> text]

NoValue == Value("none", <<>>)

\* a provider object with the messages it is given and its backend; calls
\* counts the backend requests made, op, stream, outcome and value describe
\* the last method call, lines, items and gen the lazy sequence it returned,
\* own the response its generate_response call obtained and src the response
\* it reads
NewAdapter(kind, messages, backend) ==
    [kind |-> kind, messages |-> messages, backend |-> backend,
     normalized |-> <<>>, calls |-> 0, op |-> "none", stream |-> FALSE,
     outcome |-> "none", value |-> NoValue, lines |-> <<>>, items |-> <<>>,
     gen |-> "none", src |-> NoResponse, own |-> NoResponse]

NoAdapter == NewAdapter("none", <<>>, Backend("none", <<>>, FALSE))

NewWs == [pc |-> "new", sid |-> NoSid, link |-> "none", old |-> NoWs]

\* the state of the server after the module of app.py has been loaded
ServerInit ==
    /\ api_keys = ApiKeys
    /\ chat_sessions = [s \in {} |-> 0]
    /\ agents = <<>>
    /\ active_requests = [s \in {} |-> NoProv]
    /\ active_connections = [s \in {} |-> NoWs]
    /\ ws = [t \in Transports |-> NewWs]
    /\ received = [t \in Transports |-> <<>>]
    /\ req = [r \in ReqIds |-> NewReq]
    /\ current_request = [p \in {} |-> NoReq]
    /\ closed_responses = {}
    /\ running = NoReq
    /\ cfg_ops = 0
    /\ replaced = {}
    /\ idle_cancels = FALSE
    /\ tool_calls = <<>>

Init ==
    /\ ServerInit
    /\ adapter = NoAdapter

\* ------------------------------------------------ agent_manager.py
\* CodeAgent(tools=..., model=..., max_steps=...): the agent keeps the
\* configuration it is constructed with.
CodeAgent(am) ==
    [tools |-> am.tools, model |-> am.llm_provider, max_steps |-> am.max_steps]

\* mutant of InitializeAgent: the agent object the manager holds is
\* reconfigured in place instead of being replaced by a new one
InitializeAgentInPlace(heap, am) ==
    IF am.agent = 0
    THEN [heap |-> Append(heap, CodeAgent(am)),
          am |-> [am EXCEPT !.agent = Len(heap) + 1]]
    ELSE [heap |-> [heap EXCEPT ![am.agent] = CodeAgent(am)], am |-> am]

\* AgentManager._initialize_agent: a new CodeAgent object from the current
\* fields; the manager's agent field is set to the new object's address.
InitializeAgent(heap, am) ==
    [heap |-> Append(heap, CodeAgent(am)),
     am |-> [am EXCEPT !.agent = Len(heap) + 1]]

\* AgentManager.__init__(llm_provider=None, verbose=True), as new_chat calls it
AgentManagerInit(heap, s) ==
    InitializeAgent(heap,
        [llm_provider |-> Prov(s, "openai", "gpt-4-turbo-preview"),
         max_steps |-> DefaultMaxSteps, verbose |-> TRUE,
         tools |-> DefaultTools, authorized_imports |-> DefaultImports,
         agent |-> 0])

RECURSIVE Without(_, _)
\* [t for t in tools if t.name != tool_name]
Without(tools, name) ==
    IF tools = <<>> THEN <<>>
    ELSE IF Head(tools).name = name THEN Without(Tail(tools), name)
         ELSE <<Head(tools)>> \o Without(Tail(tools), name)

\* mutant of add_tool: the tool is put in front of the list
add_tool_front(heap, am, tool) ==
    InitializeAgent(heap, [am EXCEPT !.tools = <<tool>> \o am.tools])

\* AgentManager.add_tool
add_tool(heap, am, tool) ==
    InitializeAgent(heap, [am EXCEPT !.tools = Append(am.tools, tool)])

\* AgentManager.remove_tool
remove_tool(heap, am, name) ==
    InitializeAgent(heap, [am EXCEPT !.tools = Without(am.tools, name)])

\* an optional argument: None() is an argument that is not supplied
Some(v) == [some |-> TRUE, v |-> v]

NoneInt == [some |-> FALSE, v |-> 0]

NoneBool == [some |-> FALSE, v |-> FALSE]

VerboseInputs == {NoneBool, Some(FALSE)}
ImportInputs == {{}, {"re"}}

\* mutant of update_configuration: the imports given replace the set
update_configuration_replacing(heap, am, lp, ms, vb, imports) ==
    InitializeAgent(heap,
        [am EXCEPT
            !.llm_provider = IF lp # NoProv THEN lp ELSE @,
            !.max_steps = IF ms.some THEN ms.v ELSE @,
            !.verbose = IF vb.some THEN vb.v ELSE @,
            !.authorized_imports = IF imports # {} THEN imports ELSE @])

\* AgentManager.update_configuration; NoProv, NoneInt, NoneBool and {} are
\* the arguments left at their default None
update_configuration(heap, am, lp, ms, vb, imports) ==
    InitializeAgent(heap,
        [am EXCEPT
            !.llm_provider = IF lp # NoProv THEN lp ELSE @,
            !.max_steps = IF ms.some THEN ms.v ELSE @,
            !.verbose = IF vb.some THEN vb.v ELSE @,
            !.authorized_imports = @ \cup imports])

\* ----------------------------------------------------------- app.py
\* the session ids in use: those of the sessions and those that clients
\* have opened a websocket with
UsedIds == DOMAIN chat_sessions \cup {ws[t].sid : t \in DOMAIN ws}

\* mutant of new_chat: the identifier is not a new one
new_chat_reused(s) ==
    /\ running = NoReq
    /\ s \in UsedIds \ {NoSid}
    /\ IF "openai" \in api_keys
       THEN LET made == AgentManagerInit(agents, s)
            IN /\ agents' = made.heap
               /\ chat_sessions' = Put(chat_sessions, s, made.am)
       ELSE UNCHANGED <<agents, chat_sessions>>
    /\ UNCHANGED << api_keys, adapter, tool_calls, active_requests, active_connections, ws, received,
                    req, current_request, closed_responses, running, cfg_ops,
                    replaced, idle_cancels >>

\* POST /api/chat/new.  uuid4 gives an identifier that is not in use.  The
\* AgentManager builds its default OpenAIProvider, which raises without
\* OPENAI_API_KEY: then the route fails and nothing is stored.
new_chat(s) ==
    /\ running = NoReq
    /\ First(s, SessionOrder, UsedIds)
    /\ IF "openai" \in api_keys
       THEN LET made == AgentManagerInit(agents, s)
            IN /\ agents' = made.heap
               /\ chat_sessions' = Put(chat_sessions, s, made.am)
       ELSE UNCHANGED <<agents, chat_sessions>>
    /\ UNCHANGED << api_keys, adapter, tool_calls, active_requests, active_connections, ws, received,
                    req, current_request, closed_responses, running, cfg_ops,
                    replaced, idle_cancels >>

\* The AgentManager methods that reconfigure a session's agent.  They are
\* synchronous: each runs wholly between two suspensions of the server.
ConfigFrame ==
    UNCHANGED << api_keys, adapter, tool_calls, active_requests, active_connections, ws, received,
                 req, current_request, closed_responses, running, replaced,
                 idle_cancels >>

\* mutant of AddTool: one tool list is shared by all sessions
AddToolShared(s, name) ==
    /\ running = NoReq
    /\ s \in DOMAIN chat_sessions
    /\ cfg_ops < MaxRegOps
    /\ LET made == add_tool(agents, chat_sessions[s], Tool(name, cfg_ops + 1))
       IN /\ agents' = made.heap
          /\ chat_sessions' =
                [x \in DOMAIN chat_sessions |->
                    IF x = s THEN made.am
                    ELSE [chat_sessions[x] EXCEPT !.tools = made.am.tools]]
    /\ cfg_ops' = cfg_ops + 1
    /\ ConfigFrame

AddTool(s, name) ==
    /\ running = NoReq
    /\ s \in DOMAIN chat_sessions
    /\ cfg_ops < MaxRegOps
    /\ LET made == add_tool(agents, chat_sessions[s], Tool(name, cfg_ops + 1))
       IN /\ agents' = made.heap
          /\ chat_sessions' = [chat_sessions EXCEPT ![s] = made.am]
    /\ cfg_ops' = cfg_ops + 1
    /\ ConfigFrame

RemoveTool(s, name) ==
    /\ running = NoReq
    /\ s \in DOMAIN chat_sessions
    /\ cfg_ops < MaxRegOps
    /\ LET made == remove_tool(agents, chat_sessions[s], name)
       IN /\ agents' = made.heap
          /\ chat_sessions' = [chat_sessions EXCEPT ![s] = made.am]
    /\ cfg_ops' = cfg_ops + 1
    /\ ConfigFrame

UpdateConfiguration(s, lp, ms, vb, imports) ==
    /\ running = NoReq
    /\ s \in DOMAIN chat_sessions
    /\ cfg_ops < MaxRegOps
    /\ LET made == update_configuration(agents, chat_sessions[s], lp, ms,
                                        vb, imports)
       IN /\ agents' = made.heap
          /\ chat_sessions' = [chat_sessions EXCEPT ![s] = made.am]
    /\ cfg_ops' = cfg_ops + 1
    /\ ConfigFrame

\* ---- websocket_endpoint (app.py:63-92)
\* accept() has returned; an existing binding of the session id is closed,
\* which suspends the handler; without one the new binding is stored at once.
WsAccept(t, s) ==
    /\ running = NoReq
    /\ First(t, TransportOrder, {u \in Transports : ws[u].pc # "new"})
    /\ IF s \in DOMAIN active_connections
       THEN LET old == active_connections[s]
            IN /\ ws' = [ws EXCEPT
                     ![t] = [pc |-> "closing", sid |-> s, link |-> "open",
                             old |-> old],
                     ![old].link = "closed"]
               /\ UNCHANGED <<active_connections, replaced>>
       ELSE /\ ws' = [ws EXCEPT
                  ![t] = [pc |-> "receiving", sid |-> s, link |-> "open",
                          old |-> NoWs]]
            /\ active_connections' = Put(active_connections, s, t)
            /\ UNCHANGED replaced
    /\ UNCHANGED << api_keys, adapter, tool_calls, chat_sessions, agents, active_requests, received,
                    req, current_request, closed_responses, running, cfg_ops,
                    idle_cancels >>

\* close() of the old websocket has returned (or raised, which is ignored):
\* the new binding is stored over whatever is bound by now.
WsStore(t) ==
    /\ running = NoReq
    /\ ws[t].pc = "closing"
    /\ LET s == ws[t].sid
       IN /\ active_connections' = Put(active_connections, s, t)
          /\ replaced' = IF s \in DOMAIN active_connections
                         THEN replaced \cup {active_connections[s]}
                         ELSE replaced
    /\ ws' = [ws EXCEPT ![t].pc = "receiving"]
    /\ UNCHANGED << api_keys, adapter, tool_calls, chat_sessions, agents, active_requests, received,
                    req, current_request, closed_responses, running, cfg_ops,
                    idle_cancels >>

\* the client side of a websocket goes away
PeerClose(t) ==
    /\ running = NoReq
    /\ ws[t].link = "open"
    /\ ws' = [ws EXCEPT ![t].link = "closed"]
    /\ UNCHANGED << api_keys, adapter, tool_calls, chat_sessions, agents, active_requests,
                    active_connections, received, req, current_request,
                    closed_responses, running, cfg_ops, replaced, idle_cancels >>

\* mutant of WsDisconnect: the session is torn down with its binding
WsDisconnectTeardown(t) ==
    /\ running = NoReq
    /\ ws[t].pc = "receiving"
    /\ ws[t].link = "closed"
    /\ ws' = [ws EXCEPT ![t].pc = "done"]
    /\ active_connections' =
          IF ws[t].sid \in DOMAIN active_connections
          THEN Del(active_connections, ws[t].sid)
          ELSE active_connections
    /\ chat_sessions' =
          IF ws[t].sid \in DOMAIN chat_sessions
          THEN Del(chat_sessions, ws[t].sid)
          ELSE chat_sessions
    /\ UNCHANGED << api_keys, adapter, tool_calls, agents, active_requests, received,
                    req, current_request, closed_responses, running, cfg_ops,
                    replaced, idle_cancels >>

\* receive_text() raises on the closed websocket (WebSocketDisconnect or
\* another exception): both except clauses delete whatever binding the
\* session id has.
WsDisconnect(t) ==
    /\ running = NoReq
    /\ ws[t].pc = "receiving"
    /\ ws[t].link = "closed"
    /\ ws' = [ws EXCEPT ![t].pc = "done"]
    /\ active_connections' =
          IF ws[t].sid \in DOMAIN active_connections
          THEN Del(active_connections, ws[t].sid)
          ELSE active_connections
    /\ UNCHANGED << api_keys, adapter, tool_calls, chat_sessions, agents, active_requests, received,
                    req, current_request, closed_responses, running, cfg_ops,
                    replaced, idle_cancels >>

\* ---- broadcast_message (app.py:49-56), called from chat
\* where chat goes on after the broadcast at line `at` has returned
Cont(at, rec) ==
    CASE at = "L193" -> "L196"
      [] at = "L196" -> "L206"
      [] at = "L219" -> "L216"
      [] at = "L231" -> "L253"
      [] at = "L242" -> "L253"
      [] at = "L255" -> IF rec.exc = "none" THEN "L257" ELSE "L259"
      [] at = "L262" -> "L263"
      [] at = "L263" -> "L271"

\* where chat goes on after the broadcast at line `at` has raised: inside the
\* inner try the finally clause runs first; inside the except clause of
\* line 258 nothing catches it and the handler fails.
Raise(at) ==
    CASE at \in {"L193", "L196", "L255"} -> "L259"
      [] at \in {"L219", "L231", "L242"} -> "L253"
      [] at \in {"L262", "L263"} -> "crashed"

IsAnswer(e) == e.type = "message" /\ e.role = "assistant" /\ e.id = "assistant"

\* history kept with every broadcast call
Issue(rec, e) ==
    [rec EXCEPT
        !.issued = Append(@, e),
        !.stale = @ \/ (rec.sid \in DOMAIN active_connections
                        /\ active_connections[rec.sid] \in replaced),
        !.after_cancel = IF rec.cancelled /\ IsAnswer(e) /\ @ < 2
                         THEN @ + 1 ELSE @]

\* mutant of Broadcast: without a binding the event is written to the
\* websocket the request has used before, if there is one
BroadcastKept(rec, r, at, e) ==
    IF rec.sid \in DOMAIN active_connections \/ rec.via # NoWs
    THEN [rec |-> [Issue(rec, e) EXCEPT
                      !.pc = "await", !.at = at, !.ev = e,
                      !.target = IF rec.sid \in DOMAIN active_connections
                                 THEN active_connections[rec.sid]
                                 ELSE rec.via],
          running |-> NoReq]
    ELSE [rec |-> [Issue(rec, e) EXCEPT
                      !.pc = Cont(at, rec), !.clean = FALSE,
                      !.dropped = @ + 1],
          running |-> r]

\* broadcast_message up to its await: with a binding the write starts on the
\* bound websocket and the handler is suspended; without one the call returns
\* at once and the handler keeps the event loop (history: dropped counts
\* these calls).  A write that completes without suspending is this step
\* followed at once by SendComplete.
Broadcast(rec, r, at, e) ==
    IF rec.sid \in DOMAIN active_connections
    THEN [rec |-> [Issue(rec, e) EXCEPT
                      !.pc = "await", !.at = at, !.ev = e,
                      !.target = active_connections[rec.sid]],
          running |-> NoReq]
    ELSE [rec |-> [Issue(rec, e) EXCEPT
                      !.pc = Cont(at, rec), !.clean = FALSE,
                      !.dropped = @ + 1],
          running |-> r]

\* the handler is left; history: the marker of the session at that moment
Marker(s) ==
    IF s \in DOMAIN active_requests THEN active_requests[s] ELSE NoProv

Ended(rec, pc, result) ==
    [rec EXCEPT !.pc = pc, !.result = result, !.end_marker = Marker(rec.sid)]

\* the awaited send_json returns: the event has reached the client of an open
\* websocket; on a closed one it raises and the except clause deletes the
\* session's binding, which raises KeyError when there is none any more.
SendComplete(r) ==
    /\ running = NoReq
    /\ req[r].pc = "await"
    /\ LET rec == req[r]
           t == rec.target
       IN IF ws[t].link = "open"
          THEN /\ received' = [received EXCEPT ![t] = Append(@, rec.ev)]
               /\ req' = [req EXCEPT ![r] =
                     [rec EXCEPT
                        !.pc = Cont(rec.at, rec),
                        !.clean = @ /\ rec.via \in {NoWs, t},
                        !.via = t]]
               /\ running' = r
               /\ UNCHANGED active_connections
          ELSE IF rec.sid \in DOMAIN active_connections
          THEN /\ active_connections' = Del(active_connections, rec.sid)
               /\ req' = [req EXCEPT ![r] =
                     [rec EXCEPT !.pc = Cont(rec.at, rec), !.clean = FALSE]]
               /\ running' = r
               /\ UNCHANGED received
          ELSE /\ req' = [req EXCEPT ![r] =
                     IF Raise(rec.at) = "crashed"
                     THEN Ended([rec EXCEPT !.clean = FALSE], "crashed",
                                "KeyError")
                     ELSE [rec EXCEPT
                             !.pc = Raise(rec.at), !.exc = "KeyError",
                             !.clean = FALSE]]
               /\ running' = IF Raise(rec.at) = "crashed" THEN NoReq ELSE r
               /\ UNCHANGED <<received, active_connections>>
    /\ UNCHANGED << api_keys, adapter, tool_calls, chat_sessions, agents, active_requests, ws,
                    current_request, closed_responses, cfg_ops, replaced,
                    idle_cancels >>

\* ---- the provider classes of llm.py, as chat and the agent use them
\* the constructors of OpenAI, Anthropic and DeepSeek raise without their key
NeedsKey(kind) == kind \in {"openai", "anthropic", "deepseek"}

\* bool(response) of a requests.Response is response.ok: a response with an
\* error status is false
Truthy(response) == \A n \in DOMAIN ErrorResponses : response # ErrorResponses[n]

\* LLMProvider.cancel_request of every class: close and clear the attached
\* response, if there is one and it is true
cancel_request(cur, closed, p) ==
    IF p \in DOMAIN cur /\ Truthy(cur[p])
    THEN [cur |-> Del(cur, p), closed |-> closed \cup {cur[p]}]
    ELSE [cur |-> cur, closed |-> closed]

\* which classes attach the backend response to _current_request
Attaches(kind) == kind = "deepseek"

\* ---- chat (app.py:155-271)
ChatFrame ==
    UNCHANGED << api_keys, adapter, tool_calls, agents, active_connections, ws, received,
                 closed_responses, cfg_ops, replaced, idle_cancels >>

\* mutant of ChatStart: the check of line 174 is left out, a request without
\* provider or model goes on to the construction of the provider
ChatStartUnchecked(r, s, provider, model, msg) ==
    /\ running = NoReq
    /\ First(r, ReqOrder, {q \in ReqIds : req[q].pc # "new"})
    /\ LET rec == [req[r] EXCEPT !.sid = s, !.msg = msg]
           llm == Prov(r, provider, model)
       IN IF s = NoSid \/ s \notin DOMAIN chat_sessions
          THEN /\ req' = [req EXCEPT ![r] =
                     [req[r] EXCEPT !.pc = "done",
                                    !.result = "Invalid session ID"]]
               /\ UNCHANGED <<chat_sessions, active_requests, running>>
          ELSE IF s \notin DOMAIN active_connections
          THEN /\ req' = [req EXCEPT ![r] =
                     [req[r] EXCEPT !.pc = "done",
                                    !.result = "No active WebSocket connection"]]
               /\ UNCHANGED <<chat_sessions, active_requests, running>>
          ELSE IF provider \notin ProviderNames
          THEN /\ req' = [req EXCEPT ![r] =
                     [req[r] EXCEPT !.sid = s, !.pc = "L259",
                                    !.exc = "Unsupported provider"]]
               /\ running' = r
               /\ UNCHANGED <<chat_sessions, active_requests>>
          ELSE IF NeedsKey(provider) /\ provider \notin api_keys
          THEN /\ req' = [req EXCEPT ![r] =
                     [req[r] EXCEPT !.sid = s, !.pc = "L259",
                                    !.exc = "API key not provided"]]
               /\ running' = r
               /\ UNCHANGED <<chat_sessions, active_requests>>
          ELSE LET b == Broadcast([rec EXCEPT !.llm = llm], r, "L193",
                                  Thinking("true", r))
               IN /\ chat_sessions' =
                        [chat_sessions EXCEPT ![s].llm_provider = llm]
                  /\ req' = [req EXCEPT ![r] = b.rec]
                  /\ running' = b.running
                  /\ UNCHANGED active_requests
    /\ UNCHANGED current_request
    /\ ChatFrame

\* lines 158-193: the checks, the provider construction, the swap of the
\* provider into the AgentManager and the first broadcast
ChatStart(r, s, provider, model, msg) ==
    /\ running = NoReq
    /\ First(r, ReqOrder, {q \in ReqIds : req[q].pc # "new"})
    /\ LET rec == [req[r] EXCEPT !.sid = s, !.msg = msg]
           llm == Prov(r, provider, model)
       IN IF s = NoSid \/ s \notin DOMAIN chat_sessions
          THEN /\ req' = [req EXCEPT ![r] =
                     [req[r] EXCEPT !.pc = "done",
                                    !.result = "Invalid session ID"]]
               /\ UNCHANGED <<chat_sessions, active_requests, running>>
          ELSE IF s \notin DOMAIN active_connections
          THEN /\ req' = [req EXCEPT ![r] =
                     [req[r] EXCEPT !.pc = "done",
                                    !.result = "No active WebSocket connection"]]
               /\ UNCHANGED <<chat_sessions, active_requests, running>>
          ELSE IF provider = Missing \/ model = Missing
          THEN /\ req' = [req EXCEPT ![r] =
                     [req[r] EXCEPT !.pc = "done",
                                    !.result = "Provider and model must be selected"]]
               /\ UNCHANGED <<chat_sessions, active_requests, running>>
          ELSE IF provider \notin ProviderNames
          THEN /\ req' = [req EXCEPT ![r] =
                     [req[r] EXCEPT !.sid = s, !.pc = "L259",
                                    !.exc = "Unsupported provider"]]
               /\ running' = r
               /\ UNCHANGED <<chat_sessions, active_requests>>
          ELSE IF NeedsKey(provider) /\ provider \notin api_keys
          THEN /\ req' = [req EXCEPT ![r] =
                     [req[r] EXCEPT !.sid = s, !.pc = "L259",
                                    !.exc = "API key not provided"]]
               /\ running' = r
               /\ UNCHANGED <<chat_sessions, active_requests>>
          ELSE LET b == Broadcast([rec EXCEPT !.llm = llm], r, "L193",
                                  Thinking("true", r))
               IN /\ chat_sessions' =
                        [chat_sessions EXCEPT ![s].llm_provider = llm]
                  /\ req' = [req EXCEPT ![r] = b.rec]
                  /\ running' = b.running
                  /\ UNCHANGED active_requests
    /\ UNCHANGED current_request
    /\ ChatFrame

\* lines 196-203: the echo of the user message; message["message"] raises
\* KeyError when the request has no message
ChatEcho(r) ==
    /\ running = r
    /\ req[r].pc = "L196"
    /\ IF req[r].msg = Missing
       THEN /\ req' = [req EXCEPT ![r].pc = "L259", ![r].exc = "KeyError"]
            /\ UNCHANGED running
       ELSE LET b == Broadcast(req[r], r, "L196",
                         Message("user", "user", <<req[r].msg>>, "na", r))
            IN /\ req' = [req EXCEPT ![r] = b.rec]
               /\ running' = b.running
    /\ UNCHANGED <<chat_sessions, active_requests, current_request>>
    /\ ChatFrame

\* what the call self.agent.run(request, stream=...) does: with stream=True
\* it returns a lazy sequence ("gen"), with stream=False the final result
\* ("text"), or the call raises
RunOutcomes == {"gen", "text", "raises"}

\* mutant of process_request: no except clause, the exception of the call
\* goes on to the caller
process_request_uncaught(am, run, text) ==
    [agent |-> am.agent, resp |-> run, text |-> text]

\* AgentManager.process_request: self.agent.run of the agent object the
\* manager holds now; an exception of the call is caught and the error dict
\* {'error': True, 'message': ...} is returned in place of a result.  No
\* field of the manager is assigned.
process_request(am, run, text) ==
    [agent |-> am.agent,
     resp |-> IF run = "raises" THEN "errdict" ELSE run,
     text |-> text]

\* lines 205-215: the marker is set, the run is obtained and the branch on
\* the kind of the response is taken; kind is what agent.run does
ChatProcess(r, kind, text) ==
    /\ running = r
    /\ req[r].pc = "L206"
    /\ LET rec == req[r]
           am == chat_sessions[rec.sid]
           res == process_request(am, kind, text)
       IN /\ active_requests' = Put(active_requests, rec.sid, rec.llm)
          /\ req' = [req EXCEPT ![r] =
                [rec EXCEPT
                   !.agent = res.agent, !.resp = res.resp, !.text = res.text,
                   !.full = <<>>, !.n = 0,
                   !.pc = IF res.resp = "text" THEN "L242" ELSE "L216",
                   !.snap = agents[res.agent],
                   !.cfg0 = [tools |-> am.tools, max_steps |-> am.max_steps]]]
    /\ UNCHANGED <<chat_sessions, current_request, running>>
    /\ ChatFrame

\* the keys a dict {'error': ..., 'message': ...} yields when iterated
ErrDictKeys == << <<"error">>, <<"message">> >>

\* the run may yield a further item while its step budget and the stream
\* bound allow and its backend response has not been closed
CanYield(rec, r) ==
    /\ rec.n < MaxItems
    /\ rec.n < agents[rec.agent].max_steps
    /\ r \notin closed_responses

\* mutant of StreamChunk: the chunk alone is broadcast, not the cumulative
\* text
StreamChunkDelta(rec, r, c) ==
    LET rec2 == [rec EXCEPT !.full = rec.full \o c, !.n = @ + 1,
                            !.chunks = Append(@, c)]
    IN Broadcast(rec2, r, "L219",
                 Message("assistant", "assistant", c, "true", r))

\* lines 216-227, a str item: it is added to full_response and the
\* cumulative text is broadcast as a streaming message
StreamChunk(rec, r, c) ==
    LET rec2 == [rec EXCEPT !.full = rec.full \o c, !.n = @ + 1,
                            !.chunks = Append(@, c)]
    IN Broadcast(rec2, r, "L219",
                 Message("assistant", "assistant", rec2.full, "true", r))

\* line 216, the run yields a str: one step of the agent, which calls its
\* model; a DeepSeek model called through generate_response attaches the
\* backend response to its _current_request
ChatNextChunk(r, c, attach) ==
    /\ running = r
    /\ req[r].pc = "L216"
    /\ req[r].resp = "gen"
    /\ CanYield(req[r], r)
    /\ LET p == agents[req[r].agent].model
           b == StreamChunk(req[r], r, c)
       IN /\ attach => Attaches(p.kind)
          /\ current_request' =
                IF attach THEN Put(current_request, p, r) ELSE current_request
          /\ req' = [req EXCEPT ![r] = b.rec]
          /\ running' = b.running
    /\ UNCHANGED <<chat_sessions, active_requests>>
    /\ ChatFrame

\* line 216-217, the run yields an item that is not a str (a step object):
\* the loop goes on to the next item
ChatNextOther(r) ==
    /\ running = r
    /\ req[r].pc = "L216"
    /\ req[r].resp = "gen"
    /\ CanYield(req[r], r)
    /\ req' = [req EXCEPT ![r].n = @ + 1]
    /\ UNCHANGED <<chat_sessions, active_requests, current_request, running>>
    /\ ChatFrame

\* line 216, the run ends
ChatNextStop(r) ==
    /\ running = r
    /\ req[r].pc = "L216"
    /\ req[r].resp = "gen"
    /\ req' = [req EXCEPT ![r].pc = "L230"]
    /\ UNCHANGED <<chat_sessions, active_requests, current_request, running>>
    /\ ChatFrame

\* line 216, the run raises (a provider or agent failure inside a step): the
\* finally clause runs with the exception pending
ChatNextRaise(r) ==
    /\ running = r
    /\ req[r].pc = "L216"
    /\ req[r].resp = "gen"
    /\ req' = [req EXCEPT ![r].pc = "L253", ![r].exc = "agent failure"]
    /\ UNCHANGED <<chat_sessions, active_requests, current_request, running>>
    /\ ChatFrame

\* line 216 on the error dict of process_request: a dict is iterable and not
\* a str, so its keys are taken for the chunks of a stream
ChatNextKey(r) ==
    /\ running = r
    /\ req[r].pc = "L216"
    /\ req[r].resp = "errdict"
    /\ IF req[r].n < Len(ErrDictKeys)
       THEN LET b == StreamChunk(req[r], r, ErrDictKeys[req[r].n + 1])
            IN /\ req' = [req EXCEPT ![r] = b.rec]
               /\ running' = b.running
       ELSE /\ req' = [req EXCEPT ![r].pc = "L230"]
            /\ UNCHANGED running
    /\ UNCHANGED <<chat_sessions, active_requests, current_request>>
    /\ ChatFrame

\* mutant of ChatFinal: the last message of a stream is sent with
\* is_streaming true
ChatFinalStreaming(r) ==
    /\ running = r
    /\ req[r].pc = "L230"
    /\ IF req[r].full # <<>>
       THEN LET b == Broadcast(req[r], r, "L231",
                        Message("assistant", "assistant", req[r].full,
                                "true", r))
            IN /\ req' = [req EXCEPT ![r] = b.rec]
               /\ running' = b.running
       ELSE /\ req' = [req EXCEPT ![r].pc = "L253"]
            /\ UNCHANGED running
    /\ UNCHANGED <<chat_sessions, active_requests, current_request>>
    /\ ChatFrame

\* lines 229-239: the final message of a stream, sent if full_response is
\* not empty
ChatFinal(r) ==
    /\ running = r
    /\ req[r].pc = "L230"
    /\ IF req[r].full # <<>>
       THEN LET b == Broadcast(req[r], r, "L231",
                        Message("assistant", "assistant", req[r].full,
                                "false", r))
            IN /\ req' = [req EXCEPT ![r] = b.rec]
               /\ running' = b.running
       ELSE /\ req' = [req EXCEPT ![r].pc = "L253"]
            /\ UNCHANGED running
    /\ UNCHANGED <<chat_sessions, active_requests, current_request>>
    /\ ChatFrame

\* lines 240-250: a response that is not iterable, or a str
ChatText(r) ==
    /\ running = r
    /\ req[r].pc = "L242"
    /\ LET b == Broadcast(req[r], r, "L242",
                    Message("assistant", "assistant", req[r].text, "false", r))
       IN /\ req' = [req EXCEPT ![r] = b.rec]
          /\ running' = b.running
    /\ UNCHANGED <<chat_sessions, active_requests, current_request>>
    /\ ChatFrame

\* lines 251-255, the finally clause
ChatFinally(r) ==
    /\ running = r
    /\ req[r].pc = "L253"
    /\ active_requests' = Put(active_requests, req[r].sid, NoProv)
    /\ LET b == Broadcast(req[r], r, "L255", Thinking("false", r))
       IN /\ req' = [req EXCEPT ![r] = b.rec]
          /\ running' = b.running
    /\ UNCHANGED <<chat_sessions, current_request>>
    /\ ChatFrame

\* line 257
ChatReturn(r) ==
    /\ running = r
    /\ req[r].pc = "L257"
    /\ req' = [req EXCEPT ![r] = Ended(req[r], "done", "success")]
    /\ running' = NoReq
    /\ UNCHANGED <<chat_sessions, active_requests, current_request>>
    /\ ChatFrame

\* lines 258-262, the except clause: the marker is cleared and, with a
\* binding, thinking:false is broadcast
ChatExcept(r) ==
    /\ running = r
    /\ req[r].pc = "L259"
    /\ active_requests' = Put(active_requests, req[r].sid, NoProv)
    /\ IF req[r].sid \in DOMAIN active_connections
       THEN LET b == Broadcast(req[r], r, "L262", Thinking("false", r))
            IN /\ req' = [req EXCEPT ![r] = b.rec]
               /\ running' = b.running
       ELSE /\ req' = [req EXCEPT ![r].pc = "L271"]
            /\ UNCHANGED running
    /\ UNCHANGED <<chat_sessions, current_request>>
    /\ ChatFrame

\* lines 263-270, the error message of the except clause
ChatErrorMessage(r) ==
    /\ running = r
    /\ req[r].pc = "L263"
    /\ LET b == Broadcast(req[r], r, "L263",
                    Message("error", "assistant", <<"Error", req[r].exc>>,
                            "na", r))
       IN /\ req' = [req EXCEPT ![r] = b.rec]
          /\ running' = b.running
    /\ UNCHANGED <<chat_sessions, active_requests, current_request>>
    /\ ChatFrame

\* line 271
ChatReturnError(r) ==
    /\ running = r
    /\ req[r].pc = "L271"
    /\ req' = [req EXCEPT ![r] = Ended(req[r], "done", req[r].exc)]
    /\ running' = NoReq
    /\ UNCHANGED <<chat_sessions, active_requests, current_request>>
    /\ ChatFrame

\* the request is inside the inner try: its marker has been set at line 206
\* and the finally clause has not run
Processing(rec) ==
    \/ rec.pc \in {"L216", "L230", "L242"}
    \/ rec.pc = "await" /\ rec.at \in {"L219", "L231", "L242"}

\* the request's lazy agent run is being consumed: its provider calls have
\* been started and the run has neither ended nor raised
InFlight(rec) ==
    /\ rec.resp = "gen"
    /\ \/ rec.pc = "L216"
       \/ rec.pc = "await" /\ rec.at = "L219"

\* mutant of cancel_chat: the marker is cleared without the check that a
\* request is active
cancel_chat_unguarded(s) ==
    /\ running = NoReq
    /\ active_requests' = Put(active_requests, s, NoProv)
    /\ idle_cancels' = (idle_cancels \/ Marker(s) = NoProv)
    /\ UNCHANGED << api_keys, adapter, tool_calls, chat_sessions, agents, active_connections, ws,
                    received, running, cfg_ops, replaced, current_request,
                    closed_responses, req >>

\* ---- cancel_chat (app.py:101-109)
cancel_chat(s) ==
    /\ running = NoReq
    /\ IF s \in DOMAIN active_requests /\ active_requests[s] # NoProv
       THEN LET c == IF s \in DOMAIN chat_sessions
                     THEN cancel_request(current_request, closed_responses,
                                         chat_sessions[s].llm_provider)
                     ELSE [cur |-> current_request,
                           closed |-> closed_responses]
            IN /\ current_request' = c.cur
               /\ closed_responses' = c.closed
               /\ active_requests' = [active_requests EXCEPT ![s] = NoProv]
               /\ req' = [r \in ReqIds |->
                     IF req[r].sid = s /\ Processing(req[r])
                     THEN [req[r] EXCEPT !.cancelled = TRUE] ELSE req[r]]
               /\ UNCHANGED idle_cancels
       ELSE /\ idle_cancels' = TRUE
            /\ UNCHANGED << current_request, closed_responses,
                            active_requests, req >>
    /\ UNCHANGED << api_keys, adapter, tool_calls, chat_sessions, agents, active_connections, ws,
                    received, running, cfg_ops, replaced >>

\* ---- llm.py: the provider classes, called directly
RoleInputs ==
    {"system", "user", "assistant", "tool", "tool-response", "human",
     "function", "other"}
\* " " stands for a content that is all white space
ContentInputs == {"hi", " "}
LineInputs == {<<>>, <<"a">>, <<"b">>}

Msg(role, content) == [role |-> role, content |-> content]

SeqsUpTo(S, n) == UNION {[1..k -> S] : k \in 0..n}

\* OpenAIProvider._map_role_to_openai (59-77)
map_role_to_openai(message) ==
    Msg(CASE message.role = "human" -> "user"
          [] message.role = "assistant" -> "assistant"
          [] message.role = "system" -> "system"
          [] message.role = "tool" -> "assistant"
          [] message.role = "tool-response" -> "assistant"
          [] OTHER -> message.role,
        message.content)

\* one turn of the loop of _convert_messages_to_prompt: what the message adds
\* to the prompt, as the tokens of f"<Prefix>: {content}\n\n"
PromptOf(msg) ==
    IF msg.role = "system" THEN <<"System: ", msg.content, "\n\n">>
    ELSE IF msg.role = "user" THEN <<"Human: ", msg.content, "\n\n">>
    ELSE IF msg.role = "assistant" THEN <<"Assistant: ", msg.content, "\n\n">>
    ELSE IF msg.role \in {"function", "tool-response"}
         THEN <<"Tool Response: ", msg.content, "\n\n">>
    ELSE IF msg.role = "tool" THEN <<"Tool Call: ", msg.content, "\n\n">>
    ELSE <<>>

RECURSIVE PromptLoop(_)
PromptLoop(messages) ==
    IF messages = <<>> THEN <<>>
    ELSE PromptOf(Head(messages)) \o PromptLoop(Tail(messages))

WhiteSpace == {" ", "\n\n"}

\* a token without the white space at its end
RStripToken(tok) ==
    CASE tok = "System: " -> "System:"
      [] tok = "Human: " -> "Human:"
      [] tok = "Assistant: " -> "Assistant:"
      [] tok = "Tool Response: " -> "Tool Response:"
      [] tok = "Tool Call: " -> "Tool Call:"
      [] OTHER -> tok

\* str.strip of a prompt: the prompt starts with a prefix or is empty, so
\* only its end loses white space
RECURSIVE Strip(_)
Strip(prompt) ==
    IF prompt = <<>> THEN <<>>
    ELSE LET last == prompt[Len(prompt)]
             front == SubSeq(prompt, 1, Len(prompt) - 1)
         IN IF last \in WhiteSpace THEN Strip(front)
            ELSE Append(front, RStripToken(last))

\* AnthropicProvider._convert_messages_to_prompt (239-257) and
\* OllamaProvider._convert_messages_to_prompt (367-385)
convert_messages_to_prompt(messages) == Strip(PromptLoop(messages))

\* what each class sends to its backend for the messages it is given
Normalize(kind, messages) ==
    IF kind = "openai"
    THEN [i \in 1..Len(messages) |-> map_role_to_openai(messages[i])]
    ELSE IF kind \in {"anthropic", "ollama"}
    THEN convert_messages_to_prompt(messages)
    ELSE messages

Str(text) == Value("str", text)

NoneValue == Value("NoneType", <<>>)

\* OpenAIProvider._handle_api_error (79-89)
ErrorText == <<"I encountered an error">>

RECURSIVE Joined(_)
\* the whole answer of the backend
Joined(lines) ==
    IF lines = <<>> THEN <<>> ELSE Head(lines) \o Joined(Tail(lines))

Returned(value, attach) ==
    [outcome |-> "returned", value |-> value, attach |-> attach]

Raised(attach) == [outcome |-> "raised", value |-> NoValue, attach |-> attach]

\* __call__ of the four classes (107-113, 188-199, 272-290, 403-416)
call(kind, b) ==
    IF kind = "openai"
    THEN IF b.fail # "none" THEN Returned(Str(ErrorText), NoResponse)
         ELSE Returned(Str(Joined(b.lines)), NoResponse)
    ELSE IF b.fail # "none" THEN Raised(NoResponse)
         ELSE Returned(Str(Joined(b.lines)), NoResponse)

\* generate_response of the four classes (115-130, 201-221, 292-335,
\* 418-448); n is the number of the backend request
generate_response(kind, b, stream, n) ==
    IF kind = "openai"
    THEN IF b.fail # "none" THEN Returned(Str(ErrorText), NoResponse)
         ELSE IF stream THEN Returned(Value("Stream", <<>>), NoResponse)
         ELSE Returned(Str(Joined(b.lines)), NoResponse)
    ELSE LET attach == IF kind # "deepseek" \/ b.fail = "transport"
                       THEN NoResponse
                       ELSE IF b.fail = "status" THEN ErrorResponses[n]
                       ELSE OkResponses[n]
         IN IF b.fail # "none" THEN Raised(attach)
            ELSE IF stream THEN Returned(Value("generator", <<>>), attach)
            ELSE Returned(Str(Joined(b.lines)), attach)

\* get_tool_call of the four classes (132-170, 223-237, 337-365, 450-478)
get_tool_call(kind, b) ==
    IF kind = "openai"
    THEN IF b.fail # "none" \/ ~b.tool THEN Returned(NoneValue, NoResponse)
         ELSE Returned(Value("tool_call", Joined(b.lines)), NoResponse)
    ELSE IF b.fail # "none" THEN Raised(NoResponse)
    ELSE IF kind = "deepseek"
    THEN IF b.tool
         THEN Returned(Value("function_call", Joined(b.lines)), NoResponse)
         ELSE Returned(NoneValue, NoResponse)
    ELSE Returned(Str(Joined(b.lines)), NoResponse)

\* the provider object that is called directly
Direct == Prov("direct", adapter.kind, "m1")

AdapterFrame ==
    UNCHANGED << api_keys, tool_calls, chat_sessions, agents, active_requests,
                 active_connections, ws, received, req, running, cfg_ops,
                 replaced, idle_cancels >>

\* the messages are prepared for the backend
NormalizeMessages ==
    /\ adapter.op = "none"
    /\ adapter' = [adapter EXCEPT
                      !.op = "normalize",
                      !.normalized = Normalize(adapter.kind, adapter.messages)]
    /\ UNCHANGED <<current_request, closed_responses>>
    /\ AdapterFrame

\* the state after a method call with result res
AfterCall(op, stream, res) ==
    /\ adapter' =
          [adapter EXCEPT
              !.op = op, !.stream = stream, !.calls = @ + 1,
              !.outcome = res.outcome, !.value = res.value,
              !.lines = IF res.value.type \in {"Stream", "generator"}
                        THEN adapter.backend.lines ELSE @,
              !.items = IF res.value.type \in {"Stream", "generator"}
                        THEN <<>> ELSE @,
              !.gen = IF res.value.type \in {"Stream", "generator"}
                      THEN "fresh" ELSE @,
              !.src = IF res.value.type \in {"Stream", "generator"}
                      THEN NoResponse ELSE @,
              !.own = IF res.value.type \in {"Stream", "generator"}
                      THEN res.attach ELSE @]
    /\ current_request' =
          IF res.attach = NoResponse THEN current_request
          ELSE Put(current_request, Direct, res.attach)
    /\ UNCHANGED closed_responses
    /\ AdapterFrame

Invoke ==
    /\ adapter.calls < MaxCalls
    /\ AfterCall("__call__", FALSE, call(adapter.kind, adapter.backend))

GenerateResponse(stream) ==
    /\ adapter.calls < MaxCalls
    /\ AfterCall("generate_response", stream,
                 generate_response(adapter.kind, adapter.backend, stream,
                                   adapter.calls + 1))

GetToolCall ==
    /\ adapter.calls < MaxCalls
    /\ AfterCall("get_tool_call", FALSE,
                 get_tool_call(adapter.kind, adapter.backend))

RECURSIVE DropEmpty(_)
\* lines 318-320 and 442-444: empty lines and chunks without text are skipped
DropEmpty(lines) ==
    IF lines # <<>> /\ Head(lines) = <<>> THEN DropEmpty(Tail(lines))
    ELSE lines

\* next() on the lazy sequence a streaming generate_response returned: the
\* stream of the OpenAI client gives its chunk objects, the generator
\* expression of line 220 the text of every chunk, the generators of lines
\* 316-321 and 440-445 the text of the chunks that have one. The generator of
\* DeepSeekProvider reads self._current_request when it is first advanced
\* (line 441), which is None after a cancel and the response of a later
\* generate_response call after one: a response that is no stream has no
\* line with a delta, and what reading a closed response or the body of an
\* error response gives is left open
NextItem ==
    /\ adapter.gen \in {"fresh", "started"}
    /\ LET kind == adapter.kind
           src == IF kind = "deepseek" /\ adapter.gen = "fresh"
                     /\ Direct \in DOMAIN current_request
                  THEN current_request[Direct] ELSE adapter.src
           lines == IF kind = "deepseek" /\ src # adapter.own THEN <<>>
                    ELSE IF kind \in {"ollama", "deepseek"}
                    THEN DropEmpty(adapter.lines) ELSE adapter.lines
           item == IF kind = "openai"
                   THEN Value("ChatCompletionChunk", Head(lines))
                   ELSE Str(Head(lines))
       IN IF kind = "deepseek" /\ src = NoResponse
          THEN adapter' = [adapter EXCEPT !.gen = "raised"]
          ELSE IF src \in closed_responses \/ ~Truthy(src)
          THEN \E end \in {"raised", "exhausted"} :
                  adapter' = [adapter EXCEPT !.gen = end, !.src = src]
          ELSE IF lines = <<>>
          THEN adapter' = [adapter EXCEPT !.gen = "exhausted", !.lines = <<>>,
                                          !.src = src]
          ELSE adapter' = [adapter EXCEPT !.gen = "started",
                                          !.lines = Tail(lines),
                                          !.items = Append(@, item),
                                          !.src = src]
    /\ UNCHANGED <<current_request, closed_responses>>
    /\ AdapterFrame

\* cancel_request of the provider object (53-57, 183-186, 267-270, 398-401)
CancelRequest ==
    /\ adapter.kind # "none"
    /\ LET c == cancel_request(current_request, closed_responses, Direct)
       IN /\ current_request' = c.cur
          /\ closed_responses' = c.closed
    /\ UNCHANGED adapter
    /\ AdapterFrame

\* ---- groups of steps, over the identifiers a specification uses
WsSteps(S, T) ==
    \/ \E s \in S, t \in T : WsAccept(t, s)
    \/ \E t \in T : PeerClose(t)
    \/ \E t \in T : WsDisconnect(t)

\* the steps of chat that take nothing from the environment
ChatSteps(R) ==
    \/ \E r \in R : SendComplete(r)
    \/ \E r \in R : ChatEcho(r)
    \/ \E r \in R : ChatNextStop(r)
    \/ \E r \in R : ChatFinal(r)
    \/ \E r \in R : ChatFinally(r)
    \/ \E r \in R : ChatReturn(r)
    \/ \E r \in R : ChatExcept(r)
    \/ \E r \in R : ChatErrorMessage(r)
    \/ \E r \in R : ChatReturnError(r)

\* ---- one session, one chat request with every input, two websockets
OneSession == {"s1"}

NextChat ==
    \/ \E s \in OneSession : new_chat(s)
    \/ WsSteps(OneSession, {"t1", "t2"})
    \/ \E t \in {"t1", "t2"} : WsStore(t)
    \/ \E s \in OneSession \cup {NoSid}, p \in ProviderInputs,
          m \in ModelInputs, msg \in MessageInputs :
          ChatStart("r1", s, p, m, msg)
    \/ ChatSteps({"r1"})
    \/ \E k \in RunOutcomes, c \in Chunks :
          ChatProcess("r1", k, IF k = "text" THEN c ELSE <<>>)
    \/ \E c \in Chunks, a \in BOOLEAN : ChatNextChunk("r1", c, a)
    \/ ChatNextOther("r1")
    \/ ChatNextRaise("r1")
    \/ ChatNextKey("r1")
    \/ ChatText("r1")
    \/ \E s \in OneSession : cancel_chat(s)

SpecChat == Init /\ [][NextChat]_vars

\* ---- one session, three websockets, one streaming chat request
NextBind ==
    \/ \E s \in OneSession : new_chat(s)
    \/ WsSteps(OneSession, Transports)
    \/ \E t \in Transports : WsStore(t)
    \/ ChatStart("r1", "s1", "openai", "m1", "hi")
    \/ ChatSteps({"r1"})
    \/ ChatProcess("r1", "gen", <<>>)
    \/ ChatNextChunk("r1", <<"a">>, FALSE)
    \/ ChatNextRaise("r1")

SpecBind == Init /\ [][NextBind]_vars

\* ---- one session, one websocket, two streaming chat requests
NextTwo ==
    \/ \E s \in OneSession : new_chat(s)
    \/ WsSteps(OneSession, {"t1"})
    \/ \E r \in ReqIds : ChatStart(r, "s1", "openai", "m1", "hi")
    \/ ChatSteps(ReqIds)
    \/ \E r \in ReqIds : ChatProcess(r, "gen", <<>>)
    \/ \E r \in ReqIds :
          req[r].n < MaxItemsTwo /\ ChatNextChunk(r, <<"a">>, FALSE)
    \/ \E r \in ReqIds : ChatNextRaise(r)
    \/ \E s \in OneSession : cancel_chat(s)

SpecTwo == Init /\ [][NextTwo]_vars

\* ---- one session, one websocket, one chat request, reconfiguration
NextConfig ==
    \/ \E s \in OneSession : new_chat(s)
    \/ WsSteps(OneSession, {"t1"})
    \/ \E p \in {"openai", "deepseek"} : ChatStart("r1", "s1", p, "m1", "hi")
    \/ ChatSteps({"r1"})
    \/ ChatProcess("r1", "gen", <<>>)
    \/ \E a \in BOOLEAN : ChatNextChunk("r1", <<"a">>, a)
    \/ ChatNextRaise("r1")
    \/ \E s \in OneSession : cancel_chat(s)
    \/ \E s \in OneSession, n \in ToolInputs :
          cfg_ops < MaxCfgOps /\ AddTool(s, n)
    \/ \E s \in OneSession, n \in ToolInputs :
          cfg_ops < MaxCfgOps /\ RemoveTool(s, n)
    \/ \E s \in OneSession, ms \in MaxStepsInputs :
          cfg_ops < MaxCfgOps
          /\ UpdateConfiguration(s, NoProv, Some(ms), NoneBool, {})
    \/ \E s \in OneSession :
          /\ cfg_ops < MaxCfgOps
          /\ UpdateConfiguration(s, Prov("cfg", "ollama", "m2"), NoneInt,
                                 NoneBool, {})

SpecConfig == Init /\ [][NextConfig]_vars

\* ---- two sessions, the AgentManager methods called on them, no request
NextRegistry ==
    \/ \E s \in SessionIds : new_chat(s)
    \/ \E s \in SessionIds, n \in ToolInputs : AddTool(s, n)
    \/ \E s \in SessionIds, n \in ToolInputs : RemoveTool(s, n)
    \/ \E s \in SessionIds, ms \in MaxStepsInputs :
          UpdateConfiguration(s, NoProv, Some(ms), NoneBool, {})
    \/ \E s \in SessionIds :
          UpdateConfiguration(s, Prov("cfg", "ollama", "m2"), NoneInt,
                              NoneBool, {})
    \/ \E s \in SessionIds, vb \in VerboseInputs, imports \in ImportInputs :
          UpdateConfiguration(s, NoProv, NoneInt, vb, imports)

SpecRegistry == Init /\ [][NextRegistry]_vars

\* ---- two sessions, each with its websocket and its streaming chat request
NextSessions ==
    \/ \E s \in SessionIds : new_chat(s)
    \/ WsAccept("t1", "s1")
    \/ WsAccept("t2", "s2")
    \/ \E t \in {"t1", "t2"} : PeerClose(t)
    \/ \E t \in {"t1", "t2"} : WsDisconnect(t)
    \/ ChatStart("r1", "s1", "openai", "m1", "hi")
    \/ ChatStart("r2", "s2", "openai", "m1", "hi")
    \/ ChatSteps(ReqIds)
    \/ \E r \in ReqIds : ChatProcess(r, "gen", <<>>)
    \/ \E r \in ReqIds :
          req[r].n < MaxItemsTwo /\ ChatNextChunk(r, <<"a">>, FALSE)
    \/ \E r \in ReqIds : ChatNextOther(r)
    \/ \E r \in ReqIds : ChatNextRaise(r)

SpecSessions == Init /\ [][NextSessions]_vars

\* ---- two sessions, each with its websocket, one streaming chat request on
\* either of them, cancellation and reconfiguration of both
NextFrame ==
    \/ \E s \in SessionIds : new_chat(s)
    \/ WsAccept("t1", "s1")
    \/ WsAccept("t2", "s2")
    \/ \E t \in {"t1", "t2"} : PeerClose(t)
    \/ \E t \in {"t1", "t2"} : WsDisconnect(t)
    \/ \E s \in SessionIds : ChatStart("r1", s, "openai", "m1", "hi")
    \/ ChatSteps({"r1"})
    \/ ChatProcess("r1", "gen", <<>>)
    \/ req["r1"].n < MaxItemsTwo /\ ChatNextChunk("r1", <<"a">>, FALSE)
    \/ req["r1"].n = 0 /\ ChatNextRaise("r1")
    \/ \E s \in SessionIds : cancel_chat(s)
    \/ \E s \in SessionIds : cfg_ops < MaxCfgOps /\ AddTool(s, "mock_tool")
    \/ \E s \in SessionIds : cfg_ops < MaxCfgOps /\ RemoveTool(s, "web_search")
    \/ \E s \in SessionIds :
          cfg_ops < MaxCfgOps
          /\ UpdateConfiguration(s, NoProv, Some(1), NoneBool, {})

SpecFrame == Init /\ [][NextFrame]_vars

\* ---- a provider object of each class, called directly
Backends ==
    {Backend("none", lines, tool) :
        lines \in SeqsUpTo(LineInputs, MaxLines), tool \in BOOLEAN}
    \cup {Backend(fail, <<>>, FALSE) : fail \in {"transport", "status"}}

InitAdapter ==
    /\ ServerInit
    /\ \E kind \in ProviderNames, b \in Backends :
          adapter = NewAdapter(kind, <<Msg("user", "hi")>>, b)

NextAdapter ==
    \/ Invoke
    \/ \E stream \in BOOLEAN : GenerateResponse(stream)
    \/ GetToolCall
    \/ NextItem
    \/ CancelRequest

SpecAdapter == InitAdapter /\ [][NextAdapter]_vars

\* ---- the messages a provider object of each class sends for its input
MessageLists ==
    SeqsUpTo({Msg(role, content) :
                 role \in RoleInputs, content \in ContentInputs}, MaxMsgs)

InitNormalize ==
    /\ ServerInit
    /\ \E kind \in ProviderNames, messages \in MessageLists :
          adapter = NewAdapter(kind, messages, Backend("none", <<>>, FALSE))

NextNormalize == NormalizeMessages

SpecNormalize == InitNormalize /\ [][NextNormalize]_vars

\* ------------------------------------------------ tools/base_tools.py
\* what forward hands to its caller: a value, or an exception
ToolReturned(value) == [outcome |-> "returned", value |-> value]

ToolRaised == [outcome |-> "raised", value |-> NoValue]

\* the arguments of a call and what the environment does during it
ToolArgs(operation, content, metric, env) ==
    [operation |-> operation, content |-> content, metric |-> metric,
     env |-> env]

\* WebSearchTool.forward (29-32): no except clause, an exception of the
\* search client goes on to the caller
web_search(a) ==
    IF a.env = "fails" THEN ToolRaised
    ELSE ToolReturned(Str(<<"results">>))

\* WebScrapeTool.forward (46-56)
web_scrape(a) ==
    IF a.env = "fails" THEN ToolReturned(Str(<<"Error scraping webpage">>))
    ELSE ToolReturned(Str(<<"page">>))

\* SystemCommandTool.forward (70-81): subprocess.run with timeout=30 ends
\* the shell and raises TimeoutExpired, which the except clause turns into
\* text; a command that prints nothing gives the empty stderr
system_command(a) ==
    IF a.env \in {"fails", "timeout"}
    THEN ToolReturned(Str(<<"Error executing command">>))
    ELSE IF a.env = "stdout" THEN ToolReturned(Str(<<"out">>))
    ELSE IF a.env = "stderr" THEN ToolReturned(Str(<<"err">>))
    ELSE ToolReturned(Str(<<>>))

\* FileSystemTool.forward (105-117): f.write(None) raises TypeError inside
\* the try; an operation that is none of the three falls through the
\* if/elif chain and the function returns None
file_system(a) ==
    IF a.operation = "read"
    THEN IF a.env = "fails"
         THEN ToolReturned(Str(<<"Error performing file operation">>))
         ELSE ToolReturned(Str(<<"data">>))
    ELSE IF a.operation = "write"
    THEN IF a.env = "fails" \/ a.content = "None"
         THEN ToolReturned(Str(<<"Error performing file operation">>))
         ELSE ToolReturned(Str(<<"Successfully wrote to">>))
    ELSE IF a.operation = "list"
    THEN IF a.env = "fails"
         THEN ToolReturned(Str(<<"Error performing file operation">>))
         ELSE ToolReturned(Str(<<"names">>))
    ELSE ToolReturned(NoneValue)

\* TwitterSearchTool.forward (156-170); env "unset": the credentials are not
\* in the environment and self.api is None
twitter_search(a) ==
    IF a.env = "unset"
    THEN ToolReturned(Str(<<"Twitter API is not configured">>))
    ELSE IF a.env = "fails"
    THEN ToolReturned(Str(<<"Error searching Twitter">>))
    ELSE ToolReturned(Str(<<"tweets">>))

\* SystemInfoTool.forward (185-210): with a metric that is none of the three
\* info is unbound at line 208 and the UnboundLocalError is caught
system_info(a) ==
    IF a.env = "fails" \/ a.metric \notin {"cpu", "memory", "disk"}
    THEN ToolReturned(Str(<<"Error getting system info">>))
    ELSE ToolReturned(Str(<<"info">>))

\* forward of the default tool with this name
forward(name, a) ==
    CASE name = "web_search" -> web_search(a)
      [] name = "web_scrape" -> web_scrape(a)
      [] name = "system_command" -> system_command(a)
      [] name = "file_system" -> file_system(a)
      [] name = "twitter_search" -> twitter_search(a)
      [] name = "system_info" -> system_info(a)

\* the calls that are made: every default tool, with the arguments it reads
OperationInputs == {"read", "write", "list", "delete"}
ContentArgInputs == {"None", "text"}
MetricInputs == {"cpu", "memory", "disk", "network"}

ToolEnvs(name) ==
    CASE name = "system_command" ->
            {"stdout", "stderr", "silent", "timeout", "fails"}
      [] name = "twitter_search" -> {"ok", "fails", "unset"}
      [] OTHER -> {"ok", "fails"}

ToolInputsOf(name) ==
    {ToolArgs(operation, content, metric, env) :
        operation \in IF name = "file_system" THEN OperationInputs ELSE {"na"},
        content \in IF name = "file_system" THEN ContentArgInputs ELSE {"na"},
        metric \in IF name = "system_info" THEN MetricInputs ELSE {"na"},
        env \in ToolEnvs(name)}

ToolFrame ==
    UNCHANGED << api_keys, adapter, chat_sessions, agents, active_requests,
                 active_connections, ws, received, req, current_request,
                 closed_responses, running, cfg_ops, replaced, idle_cancels >>

\* one call of forward on a default tool
Forward(name, a) ==
    /\ Len(tool_calls) < MaxToolCalls
    /\ tool_calls' = Append(tool_calls,
                            [name |-> name, args |-> a,
                             result |-> forward(name, a)])
    /\ ToolFrame

\* ---- the default tools, called directly
NextTools ==
    \E i \in DOMAIN DefaultTools :
       \E a \in ToolInputsOf(DefaultTools[i].name) :
          Forward(DefaultTools[i].name, a)

SpecTools == Init /\ [][NextTools]_vars

\* ============================================================ claims
Accepted(rec) == rec.llm # NoProv

Running(rec) == Accepted(rec) /\ rec.pc \notin {"new", "done", "crashed"}

Finished(rec) == Accepted(rec) /\ rec.pc \in {"done", "crashed"}

\* the events of request r a websocket's client has received, in order
ReqEvents(t, r) ==
    LET OfReq(e) == e.req = r
    IN SelectSeq(received[t], OfReq)

\* the assistant messages (id assistant-<message_id>) among them
Answers(t, r) ==
    LET Test(e) == e.req = r /\ IsAnswer(e)
    IN SelectSeq(received[t], Test)

RECURSIVE Concat(_)
Concat(cs) == IF cs = <<>> THEN <<>> ELSE Head(cs) \o Concat(Tail(cs))

IsPrefix(a, b) == Len(a) <= Len(b) /\ SubSeq(b, 1, Len(a)) = a

\* C1: at most one chat request of a session is in progress at any time (a
\* second one submitted meanwhile is rejected and never gets in progress).
C1_SingleFlight ==
    \A r1, r2 \in ReqIds :
        r1 # r2 /\ Running(req[r1]) /\ Running(req[r2])
            => req[r1].sid # req[r2].sid

\* C2: a websocket whose binding was replaced by a new one has been closed,
\* and no event is written to it once it is replaced.
C2_Supersede ==
    /\ \A t \in replaced : ws[t].link = "closed"
    /\ \A r \in ReqIds : ~req[r].stale

\* what C3 expects of the streaming messages: the k-th carries c1 + ... + ck
StreamingOf(r, chunks) ==
    [k \in 1..Len(chunks) |->
        Message("assistant", "assistant", Concat(SubSeq(chunks, 1, k)),
                "true", r)]

FinalOf(r, chunks) ==
    Message("assistant", "assistant", Concat(chunks), "false", r)

\* a stream of n >= 1 text chunks was consumed to its end, every event of
\* the request was delivered on one websocket, and the handler returned
StreamedThrough(r) ==
    /\ req[r].pc = "done"
    /\ req[r].result = "success"
    /\ req[r].resp \in {"gen", "errdict"}
    /\ req[r].clean
    /\ Len(req[r].chunks) >= 1

\* C3 as stated: n streaming messages with the cumulative text, then exactly
\* one final message with the whole text.
C3_AlwaysFinal ==
    \A r \in ReqIds :
        StreamedThrough(r) =>
            Answers(req[r].via, r) =
                StreamingOf(r, req[r].chunks) \o <<FinalOf(r, req[r].chunks)>>

\* C3 amended: n streaming messages with the cumulative text, then exactly
\* one final message with the whole text if that text is not empty, and no
\* final message if it is empty.
C3_StreamedEvents ==
    \A r \in ReqIds :
        StreamedThrough(r) =>
            Answers(req[r].via, r) =
                StreamingOf(r, req[r].chunks)
                    \o (IF Concat(req[r].chunks) # <<>>
                        THEN <<FinalOf(r, req[r].chunks)>> ELSE <<>>)

C3_Witness ==
    \E r \in ReqIds :
        /\ StreamedThrough(r)
        /\ req[r].resp = "gen"
        /\ Len(req[r].chunks) = 2
        /\ Concat(req[r].chunks) # <<>>

\* the place of an event in the order C4 states; 9 for the other events
Rank(e) ==
    CASE e.type = "thinking" /\ e.value = "true" -> 0
      [] e.type = "message" /\ e.role = "user" -> 1
      [] IsAnswer(e) /\ e.is_streaming = "true" -> 2
      [] IsAnswer(e) /\ e.is_streaming = "false" -> 3
      [] OTHER -> 9

\* C4: a request's events arrive in the order thinking:true, the user echo
\* once, the streaming messages (each extending the one before), the final
\* message; and the events of two requests of a session are not interleaved.
C4_Ordered ==
    \A t \in Transports :
        /\ \A r \in ReqIds :
              LET es == ReqEvents(t, r)
              IN \A i, j \in 1..Len(es) :
                    i < j /\ Rank(es[i]) # 9 /\ Rank(es[j]) # 9 =>
                       /\ Rank(es[i]) <= Rank(es[j])
                       /\ Rank(es[i]) = Rank(es[j]) =>
                             /\ Rank(es[i]) = 2
                             /\ IsPrefix(es[i].content, es[j].content)
        /\ LET es == received[t]
           IN \A i, j, k \in 1..Len(es) :
                 i < j /\ j < k /\ es[i].req = es[k].req
                     => es[j].req = es[i].req

\* C5: once a cancel has been processed, no further chunk or answer of the
\* request is sent (the one being written at that moment may still arrive).
C5_CancelHalts == \A r \in ReqIds : req[r].after_cancel = 0

\* C6: a cancel for a session that is idle or does not exist changes
\* nothing: no provider is cancelled, no event is sent, no entry is created.
C6_IdleCancelNoop ==
    [][\A s \in SessionIds :
          cancel_chat(s) /\ Marker(s) = NoProv =>
             UNCHANGED << chat_sessions, agents, active_requests,
                          active_connections, ws, received, req,
                          current_request, closed_responses >>]_vars

C6_Witness ==
    /\ idle_cancels
    /\ "s1" \in DOMAIN chat_sessions
    /\ "s1" \in DOMAIN active_connections
    /\ "s1" \in DOMAIN active_requests

\* C7: when a chat request ends, the session's marker is empty.
C7_EndsIdle ==
    \A r \in ReqIds : Finished(req[r]) => req[r].end_marker = NoProv

\* C8: while a request's provider call is in flight, the session's marker
\* holds that request's provider, also after a cancel.
C8_MarkerWhileInFlight ==
    \A r \in ReqIds :
        InFlight(req[r]) => Marker(req[r].sid) = req[r].llm

\* C9: the adapter the agent run calls is the one built from the provider
\* and model of the request.
C9_RequestedAdapter ==
    \A r \in ReqIds :
        InFlight(req[r]) => agents[req[r].agent].model = req[r].llm

C11_HandlerReturns ==
    \A r \in ReqIds : Accepted(req[r]) => req[r].pc # "crashed"

\* the results of the checks of lines 160-175
RejectMessages ==
    {"Invalid session ID", "No active WebSocket connection",
     "Provider and model must be selected"}

\* C12: a chat submission whose session id is unknown, whose session has no
\* bound websocket, or whose provider or model is missing returns an error
\* result and does nothing else: no provider is constructed, no event is
\* issued, and sessions, agents, markers, bindings, websockets, delivered
\* events and provider handles are unchanged.
C12_RejectedNoEffect ==
    [][\A r \in ReqIds, s \in SessionIds \cup {NoSid}, p \in ProviderInputs,
          m \in ModelInputs, msg \in MessageInputs :
          /\ req[r].pc = "new" /\ req'[r].pc # "new"
          /\ \/ s \notin DOMAIN chat_sessions
             \/ s \notin DOMAIN active_connections
             \/ p = Missing
             \/ m = Missing
          /\ ChatStart(r, s, p, m, msg)
          => /\ req'[r].pc = "done"
             /\ req'[r].result \in RejectMessages
             /\ ~Accepted(req'[r])
             /\ req'[r].issued = <<>>
             /\ UNCHANGED << chat_sessions, agents, active_requests,
                             active_connections, ws, received,
                             current_request, closed_responses,
                             running >>]_vars

C12_Witness ==
    \E r \in ReqIds :
        /\ req[r].pc = "done"
        /\ req[r].result = "Provider and model must be selected"
        /\ "s1" \in DOMAIN active_connections

\* C13: when process_request reports an error, nothing of the error result
\* reaches the client as an assistant answer or as streamed answer text.
C13_ErrorNotAsAnswer ==
    \A r \in ReqIds :
        req[r].resp = "errdict" =>
            \A t \in Transports : Answers(t, r) = <<>>

NotFound == Tool("none", 0)

RECURSIVE Resolve(_, _)
Resolve(tools, name) ==
    IF tools = <<>> THEN NotFound
    ELSE IF tools[Len(tools)].name = name THEN tools[Len(tools)]
         ELSE Resolve(SubSeq(tools, 1, Len(tools) - 1), name)

C16_UniqueNames ==
    \A s \in DOMAIN chat_sessions :
        LET tools == chat_sessions[s].tools
        IN \A i, j \in 1..Len(tools) :
              tools[i].name = tools[j].name => i = j

\* C17: after remove_tool(name) the name resolves to nothing and the other
\* tools remain in their order; the count falls by exactly one if the name
\* was present, and the registry is as before if it was absent.
C17_RemoveOne ==
    [][\A s \in SessionIds, n \in ToolInputs :
          RemoveTool(s, n) =>
             LET before == chat_sessions[s].tools
                 after == chat_sessions'[s].tools
                 Other(t) == t.name # n
             IN /\ Resolve(after, n) = NotFound
                /\ after = SelectSeq(before, Other)
                /\ Resolve(before, n) # NotFound
                      => Len(after) = Len(before) - 1
                /\ Resolve(before, n) = NotFound => after = before]_vars

\* the number of events of request r that clients have received
Delivered(r) ==
    Len(ReqEvents(TransportOrder[1], r)) + Len(ReqEvents(TransportOrder[2], r))
        + Len(ReqEvents(TransportOrder[3], r))

\* C18: a send for a session without a bound websocket drops the event: the
\* call returns to the handler at once and without an exception, sessions,
\* agents, bindings, websockets, delivered events and provider handles are
\* unchanged, and the event is not delivered later either: the events of a
\* request that clients receive are never more than those it issued while a
\* websocket was bound.
C18_DropWithoutBinding ==
    [][\A r \in ReqIds :
          /\ /\ Len(req'[r].issued) > Len(req[r].issued)
             /\ req'[r].sid \notin DOMAIN active_connections
             => /\ req'[r].dropped = req[r].dropped + 1
                /\ req'[r].pc \notin {"await", "crashed"}
                /\ req'[r].exc = req[r].exc
                /\ running' = r
                /\ UNCHANGED << chat_sessions, agents, active_connections,
                                ws, received, current_request,
                                closed_responses >>
          /\ Delivered(r)' + req'[r].dropped <= Len(req'[r].issued)]_vars

\* events of a request were delivered on t1, later events were dropped while
\* nothing was bound, and t2 has been bound to the session after that
C18_Witness ==
    \E r \in ReqIds :
        /\ req[r].dropped >= 2
        /\ req[r].pc = "done"
        /\ ReqEvents("t1", r) # <<>>
        /\ ws["t2"].old = NoWs
        /\ ws["t2"].link = "open"
        /\ req[r].sid \in DOMAIN active_connections
        /\ active_connections[req[r].sid] = "t2"
        /\ received["t2"] = <<>>

\* C19: when the write of a send fails, the send returns to its caller
\* without an exception and the binding of that session id is gone; the
\* bindings of the other session ids, the sessions and the markers are
\* unchanged.
C19_SendFailureContained ==
    [][\A r \in ReqIds :
          SendComplete(r) /\ ws[req[r].target].link # "open" =>
             /\ req'[r].pc = Cont(req[r].at, req[r])
             /\ req'[r].exc = req[r].exc
             /\ req[r].sid \notin DOMAIN active_connections'
             /\ \A s \in DOMAIN active_connections \ {req[r].sid} :
                   /\ s \in DOMAIN active_connections'
                   /\ active_connections'[s] = active_connections[s]
             /\ UNCHANGED <<chat_sessions, active_requests>>]_vars

\* C20: the disconnect of a websocket removes the binding of its session id
\* and nothing else: the other bindings, the sessions with their provider,
\* tools and configuration, the agents and the markers are unchanged; and a
\* session with a bound websocket accepts a chat request whose provider can
\* be constructed, also after a disconnect.
C20_DisconnectKeepsSession ==
    [][/\ \A t \in Transports :
             WsDisconnect(t) =>
                /\ ws[t].sid \notin DOMAIN active_connections'
                /\ DOMAIN active_connections' \subseteq DOMAIN active_connections
                /\ \A s \in DOMAIN active_connections \ {ws[t].sid} :
                      /\ s \in DOMAIN active_connections'
                      /\ active_connections'[s] = active_connections[s]
                /\ UNCHANGED << chat_sessions, agents, active_requests,
                                received, req, current_request,
                                closed_responses >>
       /\ \A r \in ReqIds, s \in SessionIds, p \in ProviderInputs,
             m \in ModelInputs, msg \in MessageInputs :
             /\ req[r].pc = "new" /\ req'[r].pc # "new"
             /\ s \in DOMAIN chat_sessions
             /\ s \in DOMAIN active_connections
             /\ p \in ProviderNames
             /\ NeedsKey(p) => p \in api_keys
             /\ m # Missing
             /\ ChatStart(r, s, p, m, msg)
             => /\ Accepted(req'[r])
                /\ req'[r].sid = s
                /\ chat_sessions'[s].llm_provider = req'[r].llm]_vars

\* t1 was disconnected and its binding removed, t2 was bound to the session
\* after that, and a chat request has been accepted and is sending on t2
C20_Witness ==
    \E r \in ReqIds :
        /\ ws["t1"].pc = "done"
        /\ ws["t2"].pc = "receiving"
        /\ ws["t2"].old = NoWs
        /\ Accepted(req[r])
        /\ Len(req[r].issued) = 1
        /\ req[r].pc = "await"
        /\ req[r].target = "t2"
        /\ ws["t1"].sid = req[r].sid

\* C21: while the provider call of one session is under way (the handler is
\* in the synchronous iteration of its run, line 216), a chat request of
\* another session that exists and has a bound websocket can be accepted.
C21_OthersNotBlocked ==
    \A r \in ReqIds :
        req[r].resp = "gen" /\ req[r].pc = "L216" =>
            \A r2 \in ReqIds, s \in SessionIds :
                /\ s # req[r].sid
                /\ s \in DOMAIN chat_sessions
                /\ s \in DOMAIN active_connections
                /\ First(r2, ReqOrder, {q \in ReqIds : req[q].pc # "new"})
                => ENABLED ChatStart(r2, s, "openai", "m1", "hi")

\* what the server holds for session id x: the AgentManager with the agent
\* it points to, the marker and the binding
SessionState(x) ==
    [am |-> IF x \in DOMAIN chat_sessions
            THEN <<chat_sessions[x], agents[chat_sessions[x].agent]>>
            ELSE <<>>,
     marker |-> IF x \in DOMAIN active_requests
                THEN <<active_requests[x]>> ELSE <<>>,
     binding |-> IF x \in DOMAIN active_connections
                 THEN <<active_connections[x]>> ELSE <<>>]

\* the step leaves all sessions but s as they are
OthersKept(s) ==
    \A x \in SessionIds \ {s} : SessionState(x)' = SessionState(x)

\* C22: an operation on one session id (a websocket of it is bound, closed or
\* disconnected; a step of a chat request of it, a send failure included; a
\* cancel; add_tool, remove_tool, update_configuration) leaves the entry,
\* tools, provider, agent, marker and binding of every other session id
\* unchanged, and no two sessions have the same agent object.
C22_SessionsIndependent ==
    [][/\ \A t \in Transports : ws'[t] # ws[t] => OthersKept(ws'[t].sid)
       /\ \A r \in ReqIds : req'[r] # req[r] => OthersKept(req'[r].sid)
       /\ active_requests' # active_requests =>
             \A s \in SessionIds : cancel_chat(s) => OthersKept(s)
       /\ cfg_ops' # cfg_ops =>
             \A s \in SessionIds :
                /\ \A n \in ToolInputs : AddTool(s, n) => OthersKept(s)
                /\ \A n \in ToolInputs : RemoveTool(s, n) => OthersKept(s)
                /\ \A ms \in MaxStepsInputs :
                      UpdateConfiguration(s, NoProv, Some(ms), NoneBool, {})
                         => OthersKept(s)
       /\ \A x, y \in DOMAIN chat_sessions' :
             x # y => chat_sessions'[x].agent # chat_sessions'[y].agent]_vars

\* a request of s1 is in flight with its marker set while s2, which has its
\* own websocket, has been given a tool of its own
C22_Witness ==
    \E r \in ReqIds :
        /\ InFlight(req[r])
        /\ req[r].sid = "s1"
        /\ Marker("s1") = req[r].llm
        /\ "s2" \in DOMAIN chat_sessions
        /\ "s2" \in DOMAIN active_connections
        /\ chat_sessions["s2"].tools # DefaultTools
        /\ chat_sessions["s1"].tools = DefaultTools

\* C23: creating a session takes an identifier that is not in the session
\* map, adds that one session with no marker and no bound websocket, and
\* leaves the other sessions, the agents built before, the markers, the
\* bindings, the websockets and the requests unchanged.
C23_NewSessionIdle ==
    [][\A s \in SessionIds :
          new_chat(s) =>
             /\ s \notin DOMAIN chat_sessions
             /\ DOMAIN chat_sessions' = DOMAIN chat_sessions \cup {s}
             /\ \A x \in DOMAIN chat_sessions :
                   chat_sessions'[x] = chat_sessions[x]
             /\ SubSeq(agents', 1, Len(agents)) = agents
             /\ s \notin DOMAIN active_requests'
             /\ s \notin DOMAIN active_connections'
             /\ UNCHANGED << active_requests, active_connections, ws,
                             received, req, current_request,
                             closed_responses >>]_vars

\* s2 was created while s1 had a request in its inner try (marker set) and
\* after s1 had been reconfigured
C23_Witness ==
    \E r \in ReqIds :
        /\ Processing(req[r])
        /\ req[r].sid = "s1"
        /\ req[r].agent = 1
        /\ Marker("s1") = req[r].llm
        /\ "s1" \in DOMAIN active_connections
        /\ "s2" \in DOMAIN chat_sessions
        /\ chat_sessions["s1"].agent = 2
        /\ chat_sessions["s2"].agent = 3

\* C24: on a provider object that is called directly, cancel_request closes
\* the attached response and clears _current_request when a response is
\* attached, changes nothing when none is attached, and a cancel_request
\* that follows it at once closes nothing.
C24_CancelClosesAndClears ==
    adapter.kind # "none" =>
        LET c == cancel_request(current_request, closed_responses, Direct)
            again == cancel_request(c.cur, c.closed, Direct)
        IN /\ Direct \in DOMAIN current_request =>
                 /\ c.closed = closed_responses \cup {current_request[Direct]}
                 /\ Direct \notin DOMAIN c.cur
           /\ Direct \notin DOMAIN current_request =>
                 /\ c.closed = closed_responses
                 /\ c.cur = current_request
           /\ again.closed = c.closed

\* the lazy sequence of the last streaming call has not been used up
Live == adapter.gen \in {"fresh", "started"}

\* C25: as long as nothing has been cancelled, a provider object has a
\* response attached exactly while a call of it is in flight, that is while
\* the lazy sequence it returned has not been used up: nothing is attached
\* before the first call and after a call has completed.
C25_AttachedWhileInFlight ==
    adapter.kind # "none" /\ closed_responses = {} =>
        (Direct \in DOMAIN current_request <=> Live)

\* C26: __call__ of every class returns a str, and when the transport or the
\* backend fails the str is the explanatory text.
C26_InvokeNeverRaises ==
    adapter.op = "__call__" =>
        /\ adapter.outcome = "returned"
        /\ adapter.value.type = "str"
        /\ adapter.backend.fail # "none" => adapter.value.text = ErrorText

\* C27: when the transport or the backend fails, generate_response and
\* get_tool_call of every class raise: they return neither a text nor None.
C27_FailurePropagated ==
    /\ adapter.op \in {"generate_response", "get_tool_call"}
    /\ adapter.backend.fail # "none"
    => adapter.outcome = "raised"

Prefixes ==
    {"System: ", "Human: ", "Assistant: ", "Tool Response: ", "Tool Call: "}

\* the prompt has, for the k-th message, a prefix followed by the content of
\* the message, and nothing else
PromptKeeps(prompt, messages) ==
    /\ Cardinality({i \in DOMAIN prompt :
                       prompt[i] \in {RStripToken(x) : x \in Prefixes}
                                     \cup Prefixes}) = Len(messages)
    /\ \A k \in DOMAIN messages :
          /\ 3 * k - 1 \in DOMAIN prompt
          /\ prompt[3 * k - 2] \in Prefixes
          /\ prompt[3 * k - 1] = messages[k].content

\* C28: what a provider object sends for its messages has one piece for each
\* message, in the order of the messages, with the content of the message
\* unchanged, whatever the roles are.
C28_NormalizationKeepsContent ==
    adapter.op = "normalize" =>
        IF adapter.kind \in {"anthropic", "ollama"}
        THEN PromptKeeps(adapter.normalized, adapter.messages)
        ELSE /\ Len(adapter.normalized) = Len(adapter.messages)
             /\ \A k \in DOMAIN adapter.messages :
                   adapter.normalized[k].content = adapter.messages[k].content

\* C29: when the lazy sequence returned by generate_response with stream=True
\* has been used up without a cancel, its items are texts and their
\* concatenation in order is the text that generate_response with
\* stream=False returns for the same backend answer.
C29_StreamEqualsValue ==
    /\ adapter.op = "generate_response"
    /\ adapter.stream
    /\ adapter.gen = "exhausted"
    /\ closed_responses = {}
    => /\ \A i \in DOMAIN adapter.items : adapter.items[i].type = "str"
       /\ Concat([i \in DOMAIN adapter.items |-> adapter.items[i].text])
             = generate_response(adapter.kind, adapter.backend, FALSE,
                                 1).value.text

\* C30: update_configuration sets the provider, max_steps and verbose that
\* are supplied to the supplied values and adds the supplied imports; the
\* fields that are not supplied and the tools stay as they are, no
\* authorized import is removed, and the agent the manager then holds is
\* built from these fields.
C30_UpdateExactlySupplied ==
    [][\A s \in SessionIds,
          lp \in {NoProv, Prov("cfg", "ollama", "m2")},
          ms \in {NoneInt} \cup {Some(m) : m \in MaxStepsInputs},
          vb \in VerboseInputs, imports \in ImportInputs :
          UpdateConfiguration(s, lp, ms, vb, imports) =>
             LET old == chat_sessions[s]
                 new == chat_sessions'[s]
             IN /\ new.llm_provider = IF lp # NoProv THEN lp
                                      ELSE old.llm_provider
                /\ new.max_steps = IF ms.some THEN ms.v ELSE old.max_steps
                /\ new.verbose = IF vb.some THEN vb.v ELSE old.verbose
                /\ new.authorized_imports = old.authorized_imports \cup imports
                /\ old.authorized_imports \subseteq new.authorized_imports
                /\ new.tools = old.tools
                /\ agents'[new.agent] = CodeAgent(new)]_vars

\* a session that was given an import and a verbose flag by one call and
\* max_steps by another has all three, its provider and its tools as before
C30_Witness ==
    \E s \in DOMAIN chat_sessions :
        /\ "re" \in chat_sessions[s].authorized_imports
        /\ DefaultImports \subseteq chat_sessions[s].authorized_imports
        /\ chat_sessions[s].verbose = FALSE
        /\ chat_sessions[s].max_steps = 1
        /\ chat_sessions[s].llm_provider.kind = "openai"
        /\ chat_sessions[s].tools = DefaultTools

\* C31: the max_steps of every session's AgentManager, and of the agent it
\* holds, is a positive integer, after construction and after every
\* update_configuration call.
C31_MaxStepsPositive ==
    \A s \in DOMAIN chat_sessions :
        /\ chat_sessions[s].max_steps > 0
        /\ agents[chat_sessions[s].agent].max_steps > 0

\* the request was accepted and its handler returned success, with every
\* event of it delivered on one websocket
Completed(r) ==
    /\ req[r].pc = "done"
    /\ req[r].result = "success"
    /\ req[r].clean

\* the assistant messages with is_streaming false that a websocket's client
\* has received for request r
Finals(t, r) ==
    LET Test(e) == e.req = r /\ IsAnswer(e) /\ e.is_streaming = "false"
    IN SelectSeq(received[t], Test)

\* the whole answer of the request: the text of a plain response, the
\* concatenation of the str chunks of a stream
Answer(r) == IF req[r].resp = "text" THEN req[r].text ELSE req[r].full

\* C33 as stated: a request that completes without error delivers exactly
\* one assistant message with is_streaming false, which carries the whole
\* answer, whether the response is a plain text or a stream, a stream without
\* text included.
C33_OneFinalMessage ==
    \A r \in ReqIds :
        Completed(r) =>
            Finals(req[r].via, r) =
                <<Message("assistant", "assistant", Answer(r), "false", r)>>

\* C33 amended: a request that completes without error delivers exactly one
\* assistant message with is_streaming false, which carries the whole
\* answer, if the response is a plain text or a stream whose text is not
\* empty, and no such message if the streamed text is empty.
C33_FinalUnlessEmpty ==
    \A r \in ReqIds :
        Completed(r) =>
            Finals(req[r].via, r) =
                IF req[r].resp = "text" \/ req[r].full # <<>>
                THEN <<Message("assistant", "assistant", Answer(r), "false",
                               r)>>
                ELSE <<>>

\* a stream that yielded a step object and no text was consumed to its end
C33_Witness ==
    \E r \in ReqIds :
        /\ Completed(r)
        /\ req[r].resp = "gen"
        /\ req[r].n >= 1
        /\ req[r].chunks = <<>>
        /\ Finals(req[r].via, r) = <<>>
        /\ Len(ReqEvents(req[r].via, r)) >= 3

\* C34: the disconnect handling of a websocket removes the binding of its
\* session id only if that binding is this websocket: the binding of a
\* websocket that has replaced it stays.
C34_SupersededDisconnect ==
    [][\A t \in Transports :
          /\ ws[t].pc = "receiving"
          /\ ws'[t].pc = "done"
          /\ ws[t].sid \in DOMAIN active_connections
          /\ active_connections[ws[t].sid] # t
          => /\ ws[t].sid \in DOMAIN active_connections'
             /\ active_connections'[ws[t].sid] = active_connections[ws[t].sid]
      ]_vars

\* C35: a request that issued thinking:true and whose handler has ended,
\* with every event of it delivered on the websocket that is still bound,
\* has issued exactly one thinking:false, as the last of its events, after
\* its messages and its error message.
C35_OneThinkingFalse ==
    \A r \in ReqIds :
        /\ req[r].pc \in {"done", "crashed"}
        /\ req[r].clean
        /\ req[r].sid \in DOMAIN active_connections
        /\ active_connections[req[r].sid] = req[r].via
        /\ ReqEvents(req[r].via, r) = req[r].issued
        /\ \E i \in DOMAIN req[r].issued :
              req[r].issued[i] = Thinking("true", r)
        => {i \in DOMAIN req[r].issued :
               req[r].issued[i] = Thinking("false", r)}
              = {Len(req[r].issued)}

\* the request is in flight: its marker is set, or the finally clause is
\* sending its thinking:false with no exception pending
InFlightSend(rec) ==
    /\ rec.pc = "await"
    /\ rec.exc = "none"
    /\ rec.at \in {"L219", "L231", "L242", "L255"}

\* C36: a send of a request in flight that ends on a lost, replaced or
\* failing websocket does not abort the request (no exception becomes
\* pending and the handler goes on where the send was made); no step of a
\* request adds a binding; and when a request that set its marker returns,
\* the marker of its session is empty.
C36_TransportLossTolerated ==
    [][\A r \in ReqIds :
          /\ InFlightSend(req[r]) /\ req'[r].pc # "await" =>
                /\ req'[r].exc = "none"
                /\ req'[r].pc = Cont(req[r].at, req[r])
          /\ req'[r] # req[r] =>
                DOMAIN active_connections' \subseteq DOMAIN active_connections
          /\ req[r].pc # "done" /\ req'[r].pc = "done" /\ req[r].resp # "none" =>
                Marker(req[r].sid)' = NoProv]_vars

\* C37: once the lazy sequence of a streaming generate_response call of a
\* DeepSeekProvider has been advanced, the response it reads is the one its
\* own call obtained, and what it has yielded is the text of that response's
\* chunks, in order, whatever calls were made on the provider before.
C37_OwnResponse ==
    adapter.kind = "deepseek" /\ adapter.gen \in {"started", "exhausted", "raised"}
    => /\ adapter.src = adapter.own
       /\ \E k \in 0..Len(adapter.backend.lines) :
             adapter.items =
                SelectSeq([i \in 1..k |-> Str(adapter.backend.lines[i])],
                          LAMBDA v : v.text # <<>>)

\* chat has raised before line 190: the provider name is not supported or
\* the constructor of the provider class has raised
EarlyFailure(rec) == rec.exc \in {"Unsupported provider", "API key not provided"}

ErrorEvent(r, text) == Message("error", "assistant", <<"Error", text>>, "na", r)

\* C38: a step of a chat request that has failed before line 190 leaves the
\* provider and the marker of its session as they are; when its handler ends
\* it has issued no thinking:true and no user echo, its result is the error,
\* and the websocket bound to the session has received the error message.
C38_EarlyFailureReported ==
    [][\A r \in ReqIds :
          EarlyFailure(req'[r]) /\ req'[r] # req[r] =>
             /\ chat_sessions' = chat_sessions
             /\ LET s == req'[r].sid
                IN (IF s \in DOMAIN active_requests'
                    THEN active_requests'[s] ELSE NoProv) = Marker(s)
             /\ req'[r].pc \in {"done", "crashed"} =>
                   /\ req'[r].pc = "done"
                   /\ req'[r].result = req'[r].exc
                   /\ \A i \in DOMAIN req'[r].issued :
                         /\ req'[r].issued[i] # Thinking("true", r)
                         /\ req'[r].issued[i].type = "message" =>
                               req'[r].issued[i].role # "user"
                   /\ req'[r].sid \in DOMAIN active_connections' =>
                         \E i \in DOMAIN received'[active_connections'[req'[r].sid]] :
                            received'[active_connections'[req'[r].sid]][i]
                               = ErrorEvent(r, req'[r].exc)]_vars

\* env values with which the operation a tool performs fails
ToolFailure(tc) == tc.args.env \in {"fails", "timeout"}

IsErrorText(value) ==
    /\ value.type = "str"
    /\ value.text \in {<<"Error scraping webpage">>, <<"Error executing command">>,
                       <<"Error performing file operation">>,
                       <<"Error searching Twitter">>,
                       <<"Error getting system info">>}

\* C39: every call of forward on a default tool returns text and does not
\* raise; when the operation fails, and when a shell command runs into the
\* timeout, the text returned is the tool's error text.
C39_ToolsReturnText ==
    \A i \in DOMAIN tool_calls :
        /\ tool_calls[i].result.outcome = "returned"
        /\ tool_calls[i].result.value.type = "str"
        /\ ToolFailure(tool_calls[i]) => IsErrorText(tool_calls[i].result.value)
====
